---- MODULE Spec2Model ----
(***************************************************************************)
(* A model of the utility types of typescript-api-pro.                     *)
(*                                                                         *)
(* The library is a set of TypeScript type aliases.  Each alias is a pure  *)
(* function from types to types, evaluated by the type checker.  The model *)
(* represents the types the aliases work on as values (string literal      *)
(* types as sequences of characters, object types as functions from keys   *)
(* to properties, Map types as a key union and a value union, tuple types  *)
(* as sequences) and each alias as an operator computed the way the        *)
(* conditional / mapped type of the source computes it.  A state is one    *)
(* evaluation: the type arguments drawn in Init, and after the action the  *)
(* alias applied and what it produced.                                     *)
(*                                                                         *)
(* The type checker is taken in strict mode (strictNullChecks on,          *)
(* exactOptionalPropertyTypes off), and the values checked against the     *)
(* constraint aliases are fresh object literals, as in the README.         *)
(***************************************************************************)
EXTENDS Integers, Sequences, FiniteSets, TLC

VARIABLES
    pc,        \* "ready" before an alias is applied, "done" after
    util,      \* the alias that was applied ("none" while ready)
    strT,      \* string-literal type argument T
    strU,      \* boolean type argument U
    strResult, \* the resulting string-literal type
    strAgain,  \* the result of applying the alias to its own result
    strRest,   \* the input a stepwise evaluation has still to read
    strAcc,    \* the output a stepwise evaluation has produced so far
    objT,      \* object type argument T of the constraint aliases
    argK,      \* key argument K ("none" when the alias takes none)
    argD,      \* key argument D / O ("none" when the alias takes none)
    cand,      \* the object literal assigned to the constrained type
    accepted,  \* whether the type checker accepts the assignment
    src,       \* type argument of a chain of container aliases
    cur,       \* the type the chain has produced so far
    trail,     \* the aliases applied to src, in order
    param,     \* the further type arguments of the alias applied last
    shape      \* the type a reshaping alias produced

strVars == <<strT, strU, strResult, strAgain, strRest, strAcc>>
objVars == <<objT, argK, argD, cand, accepted>>
convVars == <<src, cur, trail>>
shapeVars == <<param, shape>>
vars == <<pc, util, strVars, objVars, convVars, shapeVars>>

(***************************************************************************)
(* String literal types: sequences of one-character strings.               *)
(***************************************************************************)
MaxLen == 4

LowerLetters == {"a", "b"}
UpperLetters == {"A", "B"}
Digits == {"1"}
Underscore == "_"
Alphabet == LowerLetters \cup UpperLetters \cup Digits \cup {Underscore}

RECURSIVE StringsUpTo(_)
StringsUpTo(n) ==
    IF n = 0 THEN {<< >>}
    ELSE LET shorter == StringsUpTo(n - 1)
         IN  shorter \cup {Append(s, c) : s \in {t \in shorter : Len(t) = n - 1}, c \in Alphabet}

\* The intrinsic Uppercase<S> on one character.
UppercaseChar(c) ==
    CASE c = "a" -> "A"
      [] c = "b" -> "B"
      [] OTHER -> c

\* The intrinsic Lowercase<S> on one character.
LowercaseChar(c) ==
    CASE c = "A" -> "a"
      [] c = "B" -> "b"
      [] OTHER -> c

Uppercase(s) == [i \in 1..Len(s) |-> UppercaseChar(s[i])]
Lowercase(s) == [i \in 1..Len(s) |-> LowercaseChar(s[i])]

\* A mutant of Fmt: the flag is not read.
FmtIgnoresFlag(T, U) == Lowercase(T)

\* type Fmt<T, U> = U extends true ? Uppercase<T> : Lowercase<T>
Fmt(T, U) == IF U = TRUE THEN Uppercase(T) ELSE Lowercase(T)

\* First extends Uppercase<First>: First is unchanged by Uppercase, which is
\* so for an uppercase letter and for every character that is not a letter.
IsUppercase(First) == First = Uppercase(First)

\* A mutant of InferRest: two characters are dropped.
InferRestSkipsTwo(T) == IF Len(T) >= 2 THEN Tail(Tail(T)) ELSE << >>

\* T extends `${infer First}${infer Rest}`: Rest is T without its first
\* character.
InferRest(T) == Tail(T)

\* A mutant of ToSnakeCase: no underscore is put in front of a character.
RECURSIVE ToSnakeCaseNoUnderscore(_, _)
ToSnakeCaseNoUnderscore(T, U) ==
    IF T = << >> THEN << >>
    ELSE Fmt(<<Head(T)>>, U) \o ToSnakeCaseNoUnderscore(Tail(T), U)

\* type ToSnakeCase<T, U> = T extends `${infer First}${infer Rest}`
\*   ? First extends Uppercase<First> ? `_${Fmt<First, U>}${ToSnakeCase<Rest, U>}`
\*                                    : `${Fmt<First, U>}${ToSnakeCase<Rest, U>}`
\*   : ''
RECURSIVE ToSnakeCase(_, _)
ToSnakeCase(T, U) ==
    IF T # << >>
    THEN LET First == <<Head(T)>>
             Rest  == Tail(T)
         IN  IF First = Uppercase(First)
             THEN <<Underscore>> \o Fmt(First, U) \o ToSnakeCase(Rest, U)
             ELSE Fmt(First, U) \o ToSnakeCase(Rest, U)
    ELSE << >>

\* A mutant of Camel2SnakeCase: the leading underscore is kept.
Camel2SnakeCaseKeepsUnderscore(T, U) == ToSnakeCase(T, U)

\* type Camel2SnakeCase<T, U> = ToSnakeCase<T, U> extends `_${infer Rest}`
\*   ? Rest : ToSnakeCase<T, U>
Camel2SnakeCase(T, U) ==
    LET snake == ToSnakeCase(T, U)
    IN  IF snake # << >> /\ Head(snake) = Underscore
        THEN Tail(snake)
        ELSE snake

\* key.replace(/[A-Z]/g, letter => `_${letter.toLowerCase()}`), the runtime
\* conversion of transformKeys: every ASCII uppercase letter, and nothing
\* else, becomes '_' and its lowercase.
RECURSIVE transformKeys(_)
transformKeys(key) ==
    IF key = << >> THEN << >>
    ELSE (IF Head(key) \in UpperLetters
          THEN <<Underscore, LowercaseChar(Head(key))>>
          ELSE <<Head(key)>>) \o transformKeys(Tail(key))

(***************************************************************************)
(* Object types.  An object type is a function from its property keys to   *)
(* properties; a property has a declared type ty (a union, as the set of   *)
(* its members; never is the empty union) and the optional modifier.       *)
(* Reading an optional property adds undefined to its type, as the type    *)
(* checker does without exactOptionalPropertyTypes.                        *)
(***************************************************************************)
Keys == {"a", "b", "c"}
BaseAtoms == {"string", "number"}
Undefined == "undefined"
TypeAtoms == BaseAtoms \cup {Undefined}

Prop(ty, opt) == [ty |-> ty, opt |-> opt]
DeclaredProps == {Prop({t}, o) : t \in BaseAtoms, o \in BOOLEAN}
ObjTypes == UNION {[D -> DeclaredProps] : D \in SUBSET Keys}

\* Object literals: each property present carries a value of one kind
\* (a string, a number, or undefined).
Objects == UNION {[D -> TypeAtoms] : D \in SUBSET Keys}

\* keyof T
KeyOf(T) == DOMAIN T

\* T[P]: the type read from property P.
IndexedAccess(T, P) == T[P].ty \cup (IF T[P].opt THEN {Undefined} ELSE {})

\* Exclude<S, K> on unions of literals.
Exclude(S, K) == S \ K

\* Pick<T, K> = { [P in K]: T[P] }, homomorphic in T: modifiers are kept.
Pick(T, K) == [P \in K \cap DOMAIN T |-> T[P]]

\* Omit<T, K> = Pick<T, Exclude<keyof T, K>>
Omit(T, K) == Pick(T, Exclude(KeyOf(T), K))

\* Partial<T> = { [P in keyof T]?: T[P] }
Partial(T) == [P \in DOMAIN T |-> Prop(T[P].ty, TRUE)]

\* Required<T> = { [P in keyof T]-?: T[P] }: -? also removes undefined.
Required(T) == [P \in DOMAIN T |-> Prop(T[P].ty \ {Undefined}, FALSE)]

\* { [P in K]: never }
NeverProps(K) == [P \in K |-> Prop({}, FALSE)]

(***************************************************************************)
(* A constrained type is a union of intersections of object types: a set   *)
(* of alternatives, each the set of object types it intersects.            *)
(* A & (B | C) is (A & B) | (A & C).                                       *)
(***************************************************************************)

\* The literal's properties fit object type M: a property M declares is
\* either present with a value of its type or absent and optional.
AssignableTo(o, M) ==
    \A P \in DOMAIN M :
        IF P \in DOMAIN o THEN o[P] \in IndexedAccess(M, P) ELSE M[P].opt

\* Excess property check of a fresh object literal: a property is known when
\* some member of the union / intersection declares it.
KnownProperty(type, P) == \E alt \in type : \E M \in alt : P \in DOMAIN M

\* const x: type = o
Accepts(type, o) ==
    /\ \E alt \in type : \A M \in alt : AssignableTo(o, M)
    /\ \A P \in DOMAIN o : KnownProperty(type, P)

\* A mutant of RequiredDependency: K is omitted from T together with D.
RequiredDependencyOmitsBoth(T, K, D) ==
    { {Omit(T, {K, D}), Partial(NeverProps({K, D}))},
      {Omit(T, {K, D}), Required(Pick(T, {K, D}))} }

\* A mutant of RequiredDependency: Omit<T, D> is forgotten and D is only
\* demanded, not forbidden.
RequiredDependencyOneWay(T, K, D) ==
    { {T, Partial(NeverProps({K}))},
      {T, Required(Pick(T, {K, D}))} }

\* A mutant of RequiredDependency: only the branch that forbids K and D.
RequiredDependencyNeverOnly(T, K, D) ==
    { {Omit(T, {D}), Partial(NeverProps({K, D}))} }

\* type RequiredDependency<T, K, D> =
\*   Omit<T, D> & (Partial<{ [P in K | D]: never }> | Required<Pick<T, K | D>>)
RequiredDependency(T, K, D) ==
    { {Omit(T, {D}), Partial(NeverProps({K, D}))},
      {Omit(T, {D}), Required(Pick(T, {K, D}))} }

\* A mutant of MutuallyWithObject: the other properties are not forbidden.
MutuallyWithObjectNoNever(T) ==
    { { [P \in {K} |-> Prop(IndexedAccess(T, K), T[K].opt)],
        [P \in Exclude(KeyOf(T), {K}) |-> Prop(IndexedAccess(T, P), TRUE)] } : K \in KeyOf(T) }

\* A mutant of MutuallyWithObject: the property is typed T[keyof T], not T[K].
MutuallyWithObjectAnyValue(T) ==
    { { [P \in {K} |-> Prop(UNION {IndexedAccess(T, Q) : Q \in KeyOf(T)}, T[K].opt)],
        [P \in Exclude(KeyOf(T), {K}) |-> Prop({}, TRUE)] } : K \in KeyOf(T) }

\* type MutuallyWithObject<T> = {
\*   [K in keyof T]: { [P in K]: T[K] } & { [P in Exclude<keyof T, K>]?: never }
\* }[keyof T]
\* Both mapped types over K are homomorphic in T (K is constrained by
\* keyof T), so property K keeps T's optional modifier.  The undefined that
\* indexing an optional member adds to the union accepts no object and is
\* left out.
MutuallyWithObject(T) ==
    { { [P \in {K} |-> Prop(IndexedAccess(T, K), T[K].opt)],
        [P \in Exclude(KeyOf(T), {K}) |-> Prop({}, TRUE)] } : K \in KeyOf(T) }

\* A mutant of Mutually: both properties are removed from one object type.
MutuallyOmitsBoth(T, K, O) == { {Omit(T, {K, O})} }

\* type Mutually<T, K, O> = Omit<T, K> | Omit<T, O>
Mutually(T, K, O) == { {Omit(T, {K})}, {Omit(T, {O})} }

\* A mutant of Generic: Omit is forgotten (R & { [P in K]: T }).
GenericKeepsOld(R, K, T) ==
    { {R, [P \in K |-> Prop(T, R[P].opt)]} }

\* type Generic<R, K, T> = Omit<R, K> & { [P in K]: T }
\* K is constrained by keyof R, so the mapped type is homomorphic in R: the
\* properties it declares keep the optional modifier they have in R.
Generic(R, K, T) ==
    { {Omit(R, K), [P \in K |-> Prop(T, R[P].opt)]} }

\* A mutant of OmitByObject: a key of U is omitted only when U gives it the
\* type T gives it.
OmitByObjectSameType(T, U) ==
    Pick(T, {P \in KeyOf(T) : ~(P \in KeyOf(U) /\ U[P].ty = T[P].ty)})

\* type OmitByObject<T, U> = Pick<T, Exclude<keyof T, keyof U>>
OmitByObject(T, U) == Pick(T, Exclude(KeyOf(T), KeyOf(U)))

(***************************************************************************)
(* Container types.  Map<K, V> is its key union and its value union; a     *)
(* tuple type is the sequence of its element types (each a union) and the  *)
(* readonly modifier; an array type is its element type and the readonly   *)
(* modifier; Set<V> is its element union; a union of literals or of value  *)
(* types is the set of its members.  A type reference whose argument does  *)
(* not satisfy the constraint of the type parameter is an error.           *)
(***************************************************************************)
MaxTuple == 3
MaxChain == 2

\* Key types that are string literals (members of PropertyKey) and key
\* types that are not PropertyKey (the literal true, an object type).
PropertyKeyLits == Keys
NonPropertyKeys == {"true", "object"}
MapKeyAtoms == PropertyKeyLits \cup NonPropertyKeys

ObjectType(props) == [kind |-> "object", props |-> props]
MapType(K, V) == [kind |-> "Map", K |-> K, V |-> V]
TupleType(ro, elems) == [kind |-> "tuple", ro |-> ro, elems |-> elems]
UnionType(members) == [kind |-> "union", of |-> members]
SetType(members) == [kind |-> "Set", of |-> members]
ArrayType(ro, elem) == [kind |-> "array", ro |-> ro, elem |-> elem]
ConstraintError == [kind |-> "error"]

MapTypes == {MapType(K, V) : K \in SUBSET MapKeyAtoms, V \in SUBSET TypeAtoms}

RECURSIVE SeqsUpTo(_, _)
SeqsUpTo(S, n) ==
    IF n = 0 THEN {<< >>}
    ELSE LET shorter == SeqsUpTo(S, n - 1)
         IN  shorter \cup {Append(s, e) : s \in {t \in shorter : Len(t) = n - 1}, e \in S}

TupleTypes ==
    {TupleType(ro, elems) : ro \in BOOLEAN,
                            elems \in SeqsUpTo((SUBSET TypeAtoms) \ {{}}, MaxTuple)}

SetTypes == {SetType(V) : V \in SUBSET TypeAtoms}

ArrayTypes == {ArrayType(ro, elem) : ro \in BOOLEAN, elem \in SUBSET TypeAtoms}

\* type MapKeyOf<T> = T extends Map<infer K, unknown> ? K : never
MapKeyOf(T) == IF T.kind = "Map" THEN T.K ELSE {}

\* A mutant of MapValueOf: the other type argument is inferred.
MapValueOfInfersKey(T) == IF T.kind = "Map" THEN T.K ELSE {}

\* type MapValueOf<T> = T extends Map<unknown, infer V> ? V : never
MapValueOf(T) == IF T.kind = "Map" THEN T.V ELSE {}

\* A mutant of MapToObject: the key type is not intersected with PropertyKey.
MapToObjectEveryKey(T) ==
    ObjectType([K \in MapKeyOf(T) |-> Prop(IF T.kind = "Map" THEN T.V ELSE {}, FALSE)])

\* A mutant of MapToObject: the properties are optional.
MapToObjectOptional(T) ==
    ObjectType([K \in MapKeyOf(T) \cap PropertyKeyLits |->
                   Prop(IF T.kind = "Map" THEN T.V ELSE {}, TRUE)])

\* type MapToObject<T> = {
\*   [K in MapKeyOf<T> & PropertyKey]: T extends Map<unknown, infer V> ? V : never
\* }
\* The key set is not keyof of a type, so no modifier is copied: every
\* property is required.
MapToObject(T) ==
    ObjectType([K \in MapKeyOf(T) \cap PropertyKeyLits |->
                   Prop(IF T.kind = "Map" THEN T.V ELSE {}, FALSE)])

\* A mutant of ObjectToMap: undefined is not read from optional properties.
ObjectToMapDeclaredValues(T) ==
    MapType(KeyOf(T.props), UNION {T.props[P].ty : P \in KeyOf(T.props)})

\* A mutant of ObjectToMap: the value type of one property only.
ObjectToMapOneValue(T) ==
    MapType(KeyOf(T.props),
            IF KeyOf(T.props) = {} THEN {}
            ELSE IndexedAccess(T.props, CHOOSE P \in KeyOf(T.props) : TRUE))

\* type ObjectToMap<T> = Map<keyof T, T[keyof T]>
ObjectToMap(T) ==
    MapType(KeyOf(T.props),
            UNION {IndexedAccess(T.props, P) : P \in KeyOf(T.props)})

\* A mutant of ArrayItem: the type of the first element (T[0]).
ArrayItemFirst(T) ==
    IF T.kind = "tuple" /\ T.elems # << >> THEN T.elems[1] ELSE {}

\* type ArrayItem<T extends readonly unknown[]> =
\*   T extends readonly (infer U)[] ? U : never
\* U is inferred from every element position of a tuple.
ArrayItem(T) ==
    IF T.kind = "tuple"
    THEN UNION {T.elems[i] : i \in 1..Len(T.elems)}
    ELSE IF T.kind = "array" THEN T.elem ELSE {}

\* T extends readonly unknown[]: every array and tuple type, readonly or not.
ExtendsReadonlyArray(T) == T.kind \in {"tuple", "array"}

\* T extends any[]: a readonly array or tuple is not assignable to a mutable
\* array type.
ExtendsMutableArray(T) == T.kind \in {"tuple", "array"} /\ ~T.ro

\* T[number]
IndexedByNumber(T) ==
    IF T.kind = "tuple"
    THEN UNION {T.elems[i] : i \in 1..Len(T.elems)}
    ELSE T.elem

\* type ArrayItem<T extends any[]> = T[number], the declaration the README
\* gives.
ArrayItemReadme(T) ==
    IF ExtendsMutableArray(T) THEN UnionType(IndexedByNumber(T)) ELSE ConstraintError

\* A mutant of OmitMapKey: the keys are kept.
OmitMapKeyKeepsKeys(T, K) == T

\* type OmitMapKey<T, K extends MapKeyOf<T>> =
\*   T extends Map<infer Keys, infer V> ? Map<Exclude<Keys, K>, V> : never
OmitMapKey(T, K) ==
    IF T.kind = "Map" THEN MapType(Exclude(T.K, K), T.V) ELSE UnionType({})

\* type PickMapKey<T, K extends MapKeyOf<T>> =
\*   T extends Map<unknown, infer V> ? Map<K, V> : never
PickMapKey(T, K) ==
    IF T.kind = "Map" THEN MapType(K, T.V) ELSE UnionType({})

\* type SetValueOf<T> = T extends ReadonlySet<infer V> ? V : never
SetValueOf(T) == IF T.kind = "Set" THEN T.of ELSE {}

\* A mutant of OmitSetValue: the members of V are the ones kept.
OmitSetValueKeepsV(T, V) == SetType(T.of \cap V)

\* type OmitSetValue<T, V extends SetValueOf<T>> =
\*   T extends Set<infer Values> ? Set<Exclude<Values, V>> : never
OmitSetValue(T, V) ==
    IF T.kind = "Set" THEN SetType(Exclude(T.of, V)) ELSE UnionType({})

\* type ArrayToSet<T extends readonly unknown[]> = Set<T[number]>
ArrayToSet(T) ==
    IF ExtendsReadonlyArray(T) THEN SetType(IndexedByNumber(T)) ELSE ConstraintError

\* type ArrayToSet<T extends any[]> = Set<T[number]>, the second copy of the
\* declaration.
ArrayToSetMutable(T) ==
    IF ExtendsMutableArray(T) THEN SetType(IndexedByNumber(T)) ELSE ConstraintError

\* A mutant of SetToArray: the array is readonly.
SetToArrayReadonly(T) == ArrayType(TRUE, SetValueOf(T))

\* type SetToArray<T> = SetValueOf<T>[]
SetToArray(T) == ArrayType(FALSE, SetValueOf(T))

(***************************************************************************)
(* Evaluations of the string aliases.                                      *)
(***************************************************************************)
StrIdle ==
    /\ strT = << >> /\ strU = FALSE /\ strResult = << >>
    /\ strAgain = << >> /\ strRest = << >> /\ strAcc = << >>
ObjIdle == objT = << >> /\ argK = "none" /\ argD = "none" /\ cand = << >> /\ accepted = FALSE
ConvIdle == src = UnionType({}) /\ cur = UnionType({}) /\ trail = << >>
ShapeIdle == param = << >> /\ shape = {}

InitStr ==
    /\ pc = "ready"
    /\ util = "none"
    /\ strT \in StringsUpTo(MaxLen)
    /\ strU \in BOOLEAN
    /\ strResult = << >>
    /\ strAgain = << >>
    /\ strRest = << >>
    /\ strAcc = << >>
    /\ ObjIdle
    /\ ConvIdle
    /\ ShapeIdle

ApplyCamel2SnakeCase ==
    /\ pc = "ready"
    /\ pc' = "done"
    /\ util' = "Camel2SnakeCase"
    /\ strResult' = Camel2SnakeCase(strT, strU)
    /\ UNCHANGED <<strT, strU, strAgain, strRest, strAcc, objVars, convVars, shapeVars>>

\* Camel2SnakeCase<Camel2SnakeCase<T, U>, U>
ApplyCamel2SnakeCaseAgain ==
    /\ pc = "done"
    /\ util = "Camel2SnakeCase"
    /\ util' = "Camel2SnakeCase twice"
    /\ strAgain' = Camel2SnakeCase(strResult, strU)
    /\ UNCHANGED <<pc, strT, strU, strResult, strRest, strAcc, objVars, convVars, shapeVars>>

\* transformKeys on one key; its declared result type is
\* Camel2SnakeCase<K & string, false>.
ApplyTransformKeys ==
    /\ pc = "ready"
    /\ strU = FALSE
    /\ pc' = "done"
    /\ util' = "transformKeys"
    /\ strResult' = transformKeys(strT)
    /\ UNCHANGED <<strT, strU, strAgain, strRest, strAcc, objVars, convVars, shapeVars>>

NextStr ==
    \/ ApplyCamel2SnakeCase
    \/ ApplyCamel2SnakeCaseAgain
    \/ ApplyTransformKeys

SpecStr == InitStr /\ [][NextStr]_vars

(***************************************************************************)
(* ToSnakeCase evaluated step by step, one instantiation of the            *)
(* conditional type per step: the type checker reads the first character   *)
(* of what is left, emits its part of the template literal and recurses on *)
(* the rest; the false branch of the conditional ends the evaluation.      *)
(***************************************************************************)
InitEval ==
    /\ pc = "eval"
    /\ util = "none"
    /\ strT \in StringsUpTo(MaxLen)
    /\ strU \in BOOLEAN
    /\ strResult = << >>
    /\ strAgain = << >>
    /\ strRest = strT
    /\ strAcc = << >>
    /\ ObjIdle
    /\ ConvIdle
    /\ ShapeIdle

\* T extends `${infer First}${infer Rest}` holds.
StepToSnakeCase ==
    /\ pc = "eval"
    /\ strRest # << >>
    /\ LET First == <<Head(strRest)>>
       IN  strAcc' = strAcc \o (IF IsUppercase(First) THEN <<Underscore>> ELSE << >>)
                            \o Fmt(First, strU)
    /\ strRest' = InferRest(strRest)
    /\ UNCHANGED <<pc, util, strT, strU, strResult, strAgain, objVars, convVars, shapeVars>>

\* T extends `${infer First}${infer Rest}` fails: ''.
FinishToSnakeCase ==
    /\ pc = "eval"
    /\ strRest = << >>
    /\ pc' = "done"
    /\ util' = "ToSnakeCase"
    /\ strResult' = strAcc
    /\ UNCHANGED <<strT, strU, strAgain, strRest, strAcc, objVars, convVars, shapeVars>>

NextEval ==
    \/ StepToSnakeCase
    \/ FinishToSnakeCase

SpecEval == InitEval /\ [][NextEval]_vars

\* The type checker carries an evaluation it has begun to its end.
SpecEvalFair == SpecEval /\ WF_vars(NextEval)

(***************************************************************************)
(* Evaluations of the constraint aliases: an object literal is assigned to *)
(* the constrained type (const x: Alias<T, ...> = cand).                   *)
(***************************************************************************)
InitObj ==
    /\ pc = "ready"
    /\ util = "none"
    /\ objT \in ObjTypes
    /\ cand \in Objects
    /\ argK = "none"
    /\ argD = "none"
    /\ accepted = FALSE
    /\ StrIdle
    /\ ConvIdle
    /\ ShapeIdle

ApplyRequiredDependency ==
    /\ pc = "ready"
    /\ \E K \in KeyOf(objT), D \in KeyOf(objT) :
          /\ argK' = K
          /\ argD' = D
          /\ accepted' = Accepts(RequiredDependency(objT, K, D), cand)
    /\ pc' = "done"
    /\ util' = "RequiredDependency"
    /\ UNCHANGED <<objT, cand, strVars, convVars, shapeVars>>

ApplyMutuallyWithObject ==
    /\ pc = "ready"
    /\ accepted' = Accepts(MutuallyWithObject(objT), cand)
    /\ pc' = "done"
    /\ util' = "MutuallyWithObject"
    /\ UNCHANGED <<objT, cand, argK, argD, strVars, convVars, shapeVars>>

ApplyMutually ==
    /\ pc = "ready"
    /\ \E K \in KeyOf(objT), O \in KeyOf(objT) :
          /\ argK' = K
          /\ argD' = O
          /\ accepted' = Accepts(Mutually(objT, K, O), cand)
    /\ pc' = "done"
    /\ util' = "Mutually"
    /\ UNCHANGED <<objT, cand, strVars, convVars, shapeVars>>

NextObj ==
    \/ ApplyRequiredDependency
    \/ ApplyMutuallyWithObject
    \/ ApplyMutually

SpecObj == InitObj /\ [][NextObj]_vars

(***************************************************************************)
(* Evaluations of the reshaping aliases: an object type and further type   *)
(* arguments give a new object type.                                       *)
(***************************************************************************)
InitShape ==
    /\ pc = "ready"
    /\ util = "none"
    /\ objT \in ObjTypes
    /\ argK = "none"
    /\ argD = "none"
    /\ cand = << >>
    /\ accepted = FALSE
    /\ StrIdle
    /\ ConvIdle
    /\ ShapeIdle

ApplyGeneric ==
    /\ pc = "ready"
    /\ \E K \in SUBSET KeyOf(objT), T \in SUBSET TypeAtoms :
          /\ param' = [K |-> K, T |-> T]
          /\ shape' = Generic(objT, K, T)
    /\ pc' = "done"
    /\ util' = "Generic"
    /\ UNCHANGED <<objVars, strVars, convVars>>

ApplyOmitByObject ==
    /\ pc = "ready"
    /\ \E U \in ObjTypes :
          /\ param' = [U |-> U]
          /\ shape' = { {OmitByObject(objT, U)} }
    /\ pc' = "done"
    /\ util' = "OmitByObject"
    /\ UNCHANGED <<objVars, strVars, convVars>>

NextShape ==
    \/ ApplyGeneric
    \/ ApplyOmitByObject

SpecShape == InitShape /\ [][NextShape]_vars

(***************************************************************************)
(* Evaluations of the container aliases: a chain of at most MaxChain       *)
(* aliases, each applied to the type the one before it produced.           *)
(***************************************************************************)
InitConv ==
    /\ pc = "ready"
    /\ util = "none"
    /\ src \in {ObjectType(T) : T \in ObjTypes} \cup MapTypes \cup TupleTypes
                \cup SetTypes \cup ArrayTypes
    /\ cur = src
    /\ trail = << >>
    /\ StrIdle
    /\ ObjIdle
    /\ ShapeIdle

ChainWith(name, a, result) ==
    /\ Len(trail) < MaxChain
    /\ cur' = result
    /\ trail' = Append(trail, name)
    /\ param' = a
    /\ UNCHANGED <<pc, util, src, strVars, objVars, shape>>

Chain(name, result) == ChainWith(name, << >>, result)

ApplyMapKeyOf ==
    /\ cur.kind = "Map"
    /\ Chain("MapKeyOf", UnionType(MapKeyOf(cur)))

ApplyMapValueOf ==
    /\ cur.kind = "Map"
    /\ Chain("MapValueOf", UnionType(MapValueOf(cur)))

ApplyMapToObject ==
    /\ cur.kind = "Map"
    /\ Chain("MapToObject", MapToObject(cur))

ApplyObjectToMap ==
    /\ cur.kind = "object"
    /\ Chain("ObjectToMap", ObjectToMap(cur))

ApplyArrayItem ==
    /\ ExtendsReadonlyArray(cur)
    /\ Chain("ArrayItem", UnionType(ArrayItem(cur)))

\* ArrayItem as the README declares it; a readonly argument is the error the
\* constraint raises.
ApplyArrayItemReadme ==
    /\ cur.kind \in {"tuple", "array"}
    /\ Chain("ArrayItem", ArrayItemReadme(cur))

ApplyOmitMapKey ==
    /\ cur.kind = "Map"
    /\ \E K \in SUBSET MapKeyOf(cur) :
          ChainWith("OmitMapKey", [K |-> K], OmitMapKey(cur, K))

ApplyPickMapKey ==
    /\ cur.kind = "Map"
    /\ \E K \in SUBSET MapKeyOf(cur) :
          ChainWith("PickMapKey", [K |-> K], PickMapKey(cur, K))

ApplySetValueOf ==
    /\ cur.kind = "Set"
    /\ Chain("SetValueOf", UnionType(SetValueOf(cur)))

ApplyOmitSetValue ==
    /\ cur.kind = "Set"
    /\ \E V \in SUBSET SetValueOf(cur) :
          ChainWith("OmitSetValue", [V |-> V], OmitSetValue(cur, V))

ApplyArrayToSet ==
    /\ cur.kind \in {"tuple", "array"}
    /\ Chain("ArrayToSet", ArrayToSet(cur))

\* ArrayToSet in the copy constrained by any[]; a readonly argument is the
\* error the constraint raises.
ApplyArrayToSetMutable ==
    /\ cur.kind \in {"tuple", "array"}
    /\ Chain("ArrayToSet", ArrayToSetMutable(cur))

ApplySetToArray ==
    /\ cur.kind = "Set"
    /\ Chain("SetToArray", SetToArray(cur))

NextConv ==
    \/ ApplyMapKeyOf
    \/ ApplyMapValueOf
    \/ ApplyMapToObject
    \/ ApplyObjectToMap
    \/ ApplyArrayItem
    \/ ApplyArrayItemReadme
    \/ ApplyOmitMapKey
    \/ ApplyPickMapKey
    \/ ApplySetValueOf
    \/ ApplyOmitSetValue
    \/ ApplyArrayToSet
    \/ ApplyArrayToSetMutable
    \/ ApplySetToArray

SpecConv == InitConv /\ [][NextConv]_vars

(***************************************************************************)
(* Properties of the string aliases (checked under SpecStr).               *)
(***************************************************************************)
Letters == LowerLetters \cup UpperLetters

\* A camelCase identifier: non-empty, ASCII letters only, first letter lowercase.
IsCamelIdentifier(T) ==
    /\ T # << >>
    /\ \A i \in 1..Len(T) : T[i] \in Letters
    /\ T[1] \in LowerLetters

\* The number of uppercase letters among the first i characters of T.
UpperCount(T, i) == Cardinality({j \in 1..i : T[j] \in UpperLetters})

\* C1: for a camelCase identifier T, Camel2SnakeCase<T, false> is T with every
\* uppercase letter X replaced by '_' and the lowercase of X, and
\* Camel2SnakeCase<T, true> is that string uppercased.  Stated by position:
\* character i of T lands at i + (uppercase letters up to i), in the case the
\* flag asks for, with '_' right before it exactly when it was uppercase, and
\* the result has no other character.
C1_CamelToSnake ==
    (pc = "done" /\ util = "Camel2SnakeCase" /\ IsCamelIdentifier(strT)) =>
        /\ Len(strResult) = Len(strT) + UpperCount(strT, Len(strT))
        /\ \A i \in 1..Len(strT) :
              LET at == i + UpperCount(strT, i)
              IN  /\ strResult[at] = (IF strU THEN UppercaseChar(strT[i])
                                              ELSE LowercaseChar(strT[i]))
                  /\ strT[i] \in UpperLetters => strResult[at - 1] = Underscore

\* A two-word identifier converted with the uppercase flag.
C1_Witness ==
    /\ pc = "done"
    /\ util = "Camel2SnakeCase"
    /\ strT = <<"a", "b", "B", "a">>
    /\ strU = TRUE
    /\ strResult = <<"A", "B", "_", "B", "A">>

(***************************************************************************)
(* Properties of the constraint aliases (checked under SpecObj).           *)
(***************************************************************************)

\* The literal provides property P: P is present with a value.  A property
\* written with the value undefined provides nothing: the type checker reads
\* an optional property as "absent or undefined".
Provides(o, P) == P \in DOMAIN o /\ o[P] # Undefined

\* const x: T = o, for the plain object type T.
ValidFor(T, o) == Accepts({{T}}, o)

Applied(u) == pc = "done" /\ util = u

\* C5: Mutually<T, K, O> rejects every object that provides both K and O.
C5_MutuallyRejectsBoth ==
    (Applied("Mutually") /\ Provides(cand, argK) /\ Provides(cand, argD)) =>
        ~accepted

\* C6: MutuallyWithObject<T> rejects every object that provides two or more
\* of T's properties, whichever they are and whatever their values.
C6_MutuallyWithObjectRejectsTwo ==
    (Applied("MutuallyWithObject")
       /\ Cardinality({P \in KeyOf(objT) : Provides(cand, P)}) >= 2) =>
        ~accepted

\* Two properties of T, both with values of their types, are refused.
C6_Witness ==
    /\ Applied("MutuallyWithObject")
    /\ KeyOf(objT) = Keys
    /\ DOMAIN cand = {"a", "b"}
    /\ \A P \in DOMAIN cand : cand[P] \in objT[P].ty
    /\ ~accepted

\* C7: RequiredDependency<T, K, D> rejects every object that provides K
\* without D, and every object that provides D without K, whatever else of T
\* the object provides.
C7_RequiredDependencyRejectsOneAlone ==
    (Applied("RequiredDependency")
       /\ Provides(cand, argK) # Provides(cand, argD)) =>
        ~accepted

\* An object that is a valid T and provides D without K is refused.
C7_Witness ==
    /\ Applied("RequiredDependency")
    /\ ValidFor(objT, cand)
    /\ Provides(cand, argD)
    /\ argK \notin DOMAIN cand
    /\ DOMAIN cand = KeyOf(objT) \ {argK}
    /\ Cardinality(DOMAIN cand) = 2
    /\ ~accepted

\* C8: when K and D are optional in T, RequiredDependency<T, K, D> accepts
\* every object that is a valid T (all required properties, every property
\* with a value of its type in T) and provides both K and D or neither.
C8_RequiredDependencyAcceptsBothOrNeither ==
    (Applied("RequiredDependency")
       /\ objT[argK].opt /\ objT[argD].opt
       /\ ValidFor(objT, cand)
       /\ Provides(cand, argK) = Provides(cand, argD)) =>
        accepted

\* K and D optional and both provided next to a required third property.
C8_Witness ==
    /\ Applied("RequiredDependency")
    /\ argK # argD
    /\ objT[argK].opt /\ objT[argD].opt
    /\ \E P \in KeyOf(objT) : ~objT[P].opt
    /\ DOMAIN cand = Keys
    /\ \A P \in Keys : Provides(cand, P)
    /\ accepted

\* C9: for every key K of T, MutuallyWithObject<T> accepts the object that
\* provides only K when the value is of type T[K], and rejects it when the
\* value is not.
C9_MutuallyWithObjectKeepsType ==
    Applied("MutuallyWithObject") =>
        \A K \in KeyOf(objT) :
            (DOMAIN cand = {K} /\ Provides(cand, K)) =>
                (accepted <=> cand[K] \in IndexedAccess(objT, K))

\* { a: <a number> } is refused where T says a: string and has other keys.
C9_Witness ==
    /\ Applied("MutuallyWithObject")
    /\ KeyOf(objT) = Keys
    /\ objT["a"].ty = {"string"}
    /\ cand = [P \in {"a"} |-> "number"]
    /\ ~accepted

AllValueTypes(props) ==
    {t \in TypeAtoms : \E P \in KeyOf(props) : t \in IndexedAccess(props, P)}

\* C2: for an object type T with at least one key, MapToObject<ObjectToMap<T>>
\* has exactly the keys of T, each of them typed by the union of all property
\* value types of T.
C2_ObjectMapObjectRoundTrip ==
    (trail = <<"ObjectToMap", "MapToObject">>
       /\ src.kind = "object" /\ KeyOf(src.props) # {}) =>
        /\ cur.kind = "object"
        /\ KeyOf(cur.props) = KeyOf(src.props)
        /\ \A P \in KeyOf(cur.props) :
              IndexedAccess(cur.props, P) = AllValueTypes(src.props)

\* Three keys with two different value types, one of them optional.
C2_Witness ==
    /\ trail = <<"ObjectToMap", "MapToObject">>
    /\ src.kind = "object"
    /\ KeyOf(src.props) = Keys
    /\ AllValueTypes(src.props) = TypeAtoms
    /\ \A P \in Keys : IndexedAccess(cur.props, P) = TypeAtoms

\* C3: for every Map<K, V>, MapKeyOf is exactly K and MapValueOf is exactly V.
C3_MapKeyOfMapValueOf ==
    /\ (trail = <<"MapKeyOf">> /\ src.kind = "Map") => cur = UnionType(src.K)
    /\ (trail = <<"MapValueOf">> /\ src.kind = "Map") => cur = UnionType(src.V)

\* A Map keyed by two literals: the key union is those two literals.
C3_Witness ==
    /\ trail = <<"MapKeyOf">>
    /\ src = MapType({"a", "b"}, {"number"})
    /\ cur = UnionType({"a", "b"})

\* C4: for a tuple type, ArrayItem is the union of the element types: every
\* element type is in it and nothing else is, so the order of the elements
\* and their repetitions do not matter.  (Whether the constraint admits a
\* readonly tuple at all is the matter of C19.)
C4_ArrayItemOfTuple ==
    (trail = <<"ArrayItem">> /\ src.kind = "tuple" /\ cur # ConstraintError) =>
        /\ cur.kind = "union"
        /\ \A i \in 1..Len(src.elems) : src.elems[i] \subseteq cur.of
        /\ \A t \in cur.of : \E i \in 1..Len(src.elems) : t \in src.elems[i]

\* A tuple of three different element types.
C4_Witness ==
    /\ trail = <<"ArrayItem">>
    /\ src = TupleType(FALSE, <<{"string"}, {"number"}, {"undefined"}>>)
    /\ cur = UnionType({"string", "number", "undefined"})

(***************************************************************************)
(* Properties of the reshaping aliases (checked under SpecShape).          *)
(***************************************************************************)

\* The keys an object type (a union of intersections) declares, and what its
\* members declare for key P.
ShapeKeys(type) == UNION {DOMAIN M : M \in UNION type}
Declared(type, P) == {M[P] : M \in {N \in UNION type : P \in DOMAIN N}}

\* C11: Generic<R, K, T> has exactly the keys of R; property K has type T
\* whatever its type was in R; every other property is declared as in R.
C11_GenericChangesOnlyK ==
    Applied("Generic") =>
        /\ Cardinality(shape) = 1
        /\ ShapeKeys(shape) = KeyOf(objT)
        /\ \A P \in KeyOf(objT) :
              IF P \in param.K
              THEN /\ Declared(shape, P) # {}
                   /\ \A d \in Declared(shape, P) : d.ty = param.T
              ELSE Declared(shape, P) = {objT[P]}

\* Property a: string becomes a: number, next to two untouched properties.
C11_Witness ==
    /\ Applied("Generic")
    /\ KeyOf(objT) = Keys
    /\ objT["a"].ty = {"string"}
    /\ param = [K |-> {"a"}, T |-> {"number"}]
    /\ Declared(shape, "a") = {Prop({"number"}, objT["a"].opt)}
    /\ Declared(shape, "b") = {objT["b"]}

\* C12: OmitByObject<T, U> has exactly the keys of T that are not keys of U,
\* each declared as in T.  The right-hand side reads nothing of U but its
\* keys, and a key of U that T lacks removes nothing.
C12_OmitByObjectByKeyName ==
    Applied("OmitByObject") =>
        shape = { {[P \in KeyOf(objT) \ KeyOf(param.U) |-> objT[P]]} }

\* U shares key a with T under another type and has key c, which T lacks.
C12_Witness ==
    /\ Applied("OmitByObject")
    /\ KeyOf(objT) = {"a", "b"}
    /\ KeyOf(param.U) = {"a", "c"}
    /\ param.U["a"].ty # objT["a"].ty
    /\ shape = { {[P \in {"b"} |-> objT["b"]]} }

\* C13: for Map<K, V> with K a union of string / number / symbol literals,
\* MapToObject is the object type with one required property per member of
\* K, each of type V, and no other property.
C13_MapToObjectOfLiteralKeys ==
    (trail = <<"MapToObject">> /\ src.kind = "Map" /\ src.K \subseteq PropertyKeyLits) =>
        /\ cur.kind = "object"
        /\ KeyOf(cur.props) = src.K
        /\ \A P \in src.K : cur.props[P] = Prop(src.V, FALSE)

\* Map<'a' | 'b', number> gives { a: number; b: number }.
C13_Witness ==
    /\ trail = <<"MapToObject">>
    /\ src = MapType({"a", "b"}, {"number"})
    /\ cur = ObjectType([P \in {"a", "b"} |-> Prop({"number"}, FALSE)])

\* C14: for Map<Keys, V> and K within Keys, OmitMapKey is
\* Map<Keys without K, V> and PickMapKey is Map<K, V>: V is kept by both, and
\* the key type OmitMapKey leaves is disjoint from K, the key type PickMapKey
\* gives, and together with it makes Keys.
C14_OmitAndPickMapKey ==
    /\ (trail = <<"OmitMapKey">> /\ src.kind = "Map") =>
          /\ cur.kind = "Map"
          /\ cur.V = src.V
          /\ cur.K = src.K \ param.K
          /\ cur.K \cap PickMapKey(src, param.K).K = {}
          /\ cur.K \cup PickMapKey(src, param.K).K = src.K
    /\ (trail = <<"PickMapKey">> /\ src.kind = "Map") =>
          cur = MapType(param.K, src.V)

\* One of three keys is omitted.
C14_Witness ==
    /\ trail = <<"OmitMapKey">>
    /\ src = MapType(Keys, {"string", "number"})
    /\ param = [K |-> {"a"}]
    /\ cur = MapType({"b", "c"}, {"string", "number"})

\* An entry (key type, value type) the Map type admits.
MapAdmits(M, k, t) == k \in M.K /\ t \in M.V

\* C15: ObjectToMap<T> is Map<keyof T, T[keyof T]>: the key type is the union
\* of T's keys, the value type the union of all property value types, and so
\* every key of T goes with the value type of every property of T.
C15_ObjectToMapShape ==
    (trail = <<"ObjectToMap">> /\ src.kind = "object") =>
        /\ cur = MapType(KeyOf(src.props), AllValueTypes(src.props))
        /\ \A P \in KeyOf(src.props), Q \in KeyOf(src.props) :
              \A t \in IndexedAccess(src.props, Q) : MapAdmits(cur, P, t)

\* { a: string; b: number }: the Map pairs key a with number.
C15_Witness ==
    /\ trail = <<"ObjectToMap">>
    /\ src = ObjectType([P \in {"a", "b"} |->
                           Prop(IF P = "a" THEN {"string"} ELSE {"number"}, FALSE)])
    /\ MapAdmits(cur, "a", "number")
    /\ cur.K = {"a", "b"}

\* C16: SetValueOf<Set<Values>> is Values; OmitSetValue<Set<Values>, V>, for V
\* within Values, is the Set of Values without the members of V, and with
\* every member omitted the Set of never.
C16_SetValueOfOmitSetValue ==
    /\ (trail = <<"SetValueOf">> /\ src.kind = "Set") => cur = UnionType(src.of)
    /\ (trail = <<"OmitSetValue">> /\ src.kind = "Set") =>
          /\ cur = SetType(src.of \ param.V)
          /\ param.V = src.of => cur = SetType({})

\* Every member of a three-member Set type is omitted.
C16_Witness ==
    /\ trail = <<"OmitSetValue">>
    /\ src = SetType(TypeAtoms)
    /\ param = [V |-> TypeAtoms]
    /\ cur = SetType({})

\* The union of the element types of an array or tuple type.
ElementTypes(T) ==
    IF T.kind = "tuple"
    THEN {t \in TypeAtoms : \E i \in 1..Len(T.elems) : t \in T.elems[i]}
    ELSE T.elem

\* C17: for every tuple type, mutable or readonly, ArrayToSet is the Set type
\* over the union of the tuple's element types.
C17_ArrayToSetOfAnyTuple ==
    (trail = <<"ArrayToSet">> /\ src.kind = "tuple") =>
        cur = SetType(ElementTypes(src))

C19_ArrayItemOfReadonly ==
    (trail = <<"ArrayItem">> /\ src.kind \in {"tuple", "array"}) =>
        cur = UnionType(ElementTypes(src))

(***************************************************************************)
(* Further properties of the string aliases.                               *)
(***************************************************************************)

\* C21: ToSnakeCase puts an underscore in front of a character exactly when
\* the character is an uppercase letter: the result is the input, in the case
\* the flag asks for, with one '_' before each uppercase letter and no other
\* character added (none before a digit or a '_').
C21_UnderscoreOnlyBeforeUppercase ==
    Applied("ToSnakeCase") =>
        /\ Len(strResult) = Len(strT) + UpperCount(strT, Len(strT))
        /\ \A i \in 1..Len(strT) :
              LET at == i + UpperCount(strT, i)
              IN  /\ strResult[at] = (IF strU THEN UppercaseChar(strT[i])
                                              ELSE LowercaseChar(strT[i]))
                  /\ strT[i] \in UpperLetters => strResult[at - 1] = Underscore

\* A PascalCase identifier: non-empty, ASCII letters only, first letter
\* uppercase.
IsPascalIdentifier(T) ==
    /\ T # << >>
    /\ \A i \in 1..Len(T) : T[i] \in Letters
    /\ T[1] \in UpperLetters

LowerFirst(T) == <<LowercaseChar(T[1])>> \o Tail(T)

\* C22: for a PascalCase identifier, the result of Camel2SnakeCase does not
\* start with '_' and is the result for the identifier with its first letter
\* lowercased; one underscore, the leading one, is gone, and the underscore
\* in front of every later uppercase letter is still there.
C22_LeadingUnderscoreRemoved ==
    (Applied("Camel2SnakeCase") /\ IsPascalIdentifier(strT)) =>
        /\ strResult # << >>
        /\ Head(strResult) # Underscore
        /\ strResult = Camel2SnakeCase(LowerFirst(strT), strU)
        /\ Len(strResult) = Len(strT) + UpperCount(strT, Len(strT)) - 1
        /\ \A i \in 2..Len(strT) :
              strT[i] \in UpperLetters =>
                  strResult[i + UpperCount(strT, i) - 2] = Underscore

\* AbBa gives ab_ba.
C22_Witness ==
    /\ Applied("Camel2SnakeCase")
    /\ strT = <<"A", "b", "B", "a">>
    /\ strU = FALSE
    /\ strResult = <<"a", "b", "_", "b", "a">>

\* C23: for every string key, the key transformKeys produces at run time is
\* the string Camel2SnakeCase<key, false> computes.
C23_RuntimeAgreesWithType ==
    Applied("transformKeys") => strResult = Camel2SnakeCase(strT, FALSE)

\* C25: an evaluation of ToSnakeCase ends: each step takes exactly the first
\* character off what is left of the input, the evaluation ends when nothing
\* is left, with the string the recursive definition gives ('' for the empty
\* input), and every evaluation does end.
C25_ToSnakeCaseTerminates ==
    /\ [][(pc = "eval" /\ strRest # << >>) =>
              (strRest' = Tail(strRest) /\ Len(strRest') = Len(strRest) - 1)]_vars
    /\ [](pc = "done" =>
              /\ strRest = << >>
              /\ strResult = ToSnakeCase(strT, strU)
              /\ strT = << >> => strResult = << >>)
    /\ <>(pc = "done")

\* A four-character input has been read to its end.
C25_Witness ==
    /\ Applied("ToSnakeCase")
    /\ strT = <<"a", "B", "a", "b">>
    /\ strU = FALSE
    /\ strRest = << >>
    /\ strResult = <<"a", "_", "b", "a", "b">>

\* C26: for a camelCase identifier and either flag, applying Camel2SnakeCase
\* to its own result gives that result again.
C26_Camel2SnakeCaseIdempotent ==
    (Applied("Camel2SnakeCase twice") /\ IsCamelIdentifier(strT)) =>
        strAgain = strResult

\* C27: the flag changes only letter case: the result with U = true is the
\* uppercased result with U = false, so the two have the same length and
\* their underscores at the same positions; with U = true the result has no
\* lowercase letter and with U = false no uppercase letter.
C27_FlagChangesOnlyCase ==
    Applied("Camel2SnakeCase") =>
        LET other == Camel2SnakeCase(strT, ~strU)
        IN  /\ Len(strResult) = Len(other)
            /\ \A i \in 1..Len(strResult) :
                   (strResult[i] = Underscore) <=> (other[i] = Underscore)
            /\ strU => /\ strResult = Uppercase(other)
                       /\ \A i \in 1..Len(strResult) : strResult[i] \notin LowerLetters
            /\ ~strU => /\ Uppercase(strResult) = other
                        /\ \A i \in 1..Len(strResult) : strResult[i] \notin UpperLetters

\* A string with a digit and an underscore, converted with U = true.
C27_Witness ==
    /\ Applied("Camel2SnakeCase")
    /\ strT = <<"a", "1", "_", "B">>
    /\ strU = TRUE
    /\ strResult = <<"A", "_", "1", "_", "_", "_", "B">>
    /\ Camel2SnakeCase(strT, FALSE) = <<"a", "_", "1", "_", "_", "_", "b">>

(***************************************************************************)
(* Further properties of the container and constraint aliases.             *)
(***************************************************************************)

C28_MapObjectMapRoundTrip ==
    (trail = <<"MapToObject", "ObjectToMap">>
       /\ src.kind = "Map" /\ src.K \subseteq PropertyKeyLits) =>
        cur = src

\* C28 as it holds: the round trip gives Map<K, V> again when K has a member;
\* for K = never the object type in between is empty and the result is
\* Map<never, never>, whatever V is.
C28_RoundTripUnlessNoKey ==
    (trail = <<"MapToObject", "ObjectToMap">>
       /\ src.kind = "Map" /\ src.K \subseteq PropertyKeyLits) =>
        cur = (IF src.K = {} THEN MapType({}, {}) ELSE src)

\* Map<'a' | 'b', number> comes back as itself.
C28_Witness ==
    /\ trail = <<"MapToObject", "ObjectToMap">>
    /\ src = MapType({"a", "b"}, {"number"})
    /\ cur = src

\* C29 as claimed: every object RequiredDependency<T, K, D> accepts is
\* accepted by T, whether K and D are required or optional in T.
C29_RequiredDependencyOnlyNarrows ==
    (Applied("RequiredDependency") /\ accepted) => ValidFor(objT, cand)

\* C29 as it holds: when D is optional in T, every object the alias accepts is
\* accepted by T; an accepted object that T rejects is one that provides
\* neither K nor D where T requires D, and is a valid T but for D.
C29_NarrowsUnlessDRequired ==
    (Applied("RequiredDependency") /\ accepted) =>
        /\ objT[argD].opt => ValidFor(objT, cand)
        /\ ~ValidFor(objT, cand) =>
              /\ ~objT[argD].opt
              /\ ~Provides(cand, argD)
              /\ ~Provides(cand, argK)
              /\ ValidFor(Omit(objT, {argD}),
                          [P \in DOMAIN cand \ {argD} |-> cand[P]])

\* K required, D optional, both provided: accepted, and a valid T.
C29_Witness ==
    /\ Applied("RequiredDependency")
    /\ argK # argD
    /\ ~objT[argK].opt /\ objT[argD].opt
    /\ Provides(cand, argK) /\ Provides(cand, argD)
    /\ accepted
    /\ ValidFor(objT, cand)

\* C30: for T with at least one required key, MutuallyWithObject<T> rejects
\* the empty object.
C30_MutuallyWithObjectRejectsEmpty ==
    (Applied("MutuallyWithObject")
       /\ (\E P \in KeyOf(objT) : ~objT[P].opt)
       /\ DOMAIN cand = {}) =>
        ~accepted

====
